---- MODULE Spec2Model ----
(***************************************************************************)
(* Model of carton/cart.py: CartItem and the session-backed Cart.          *)
(*                                                                         *)
(* A product or option entity is represented by its primary key; its price *)
(* is a function of the key.  A stored record is the dict that             *)
(* CartItem.to_dict builds.  Python exceptions are modelled by tagged      *)
(* results: Ok(v) for a value, Raise(e) for an exception of class e.       *)
(* Quantities passed to the operations are integers, on which int() is     *)
(* the value itself.                                                       *)
(***************************************************************************)
EXTENDS Integers, Sequences, FiniteSets, TLC

\* ------------------------------------------------------------------ bounds
NumProducts == 1
NumOptions == 2
MaxQty == 2
MaxDeleted == 1

Inst == {1, 2}
MainInst == {1}
Products == 1..NumProducts
Options == 1..NumOptions
\* the option lists a caller passes: every option at most once, in any order
OptionLists ==
    UNION {{o \in [1..n -> Options] : \A j, k \in 1..n : j # k => o[j] # o[k]} :
             n \in 0..NumOptions}
Quantities == (0 - 1)..MaxQty

\* ------------------------------------------------------------- constants
CART_SESSION_KEY == "CART"
OTHER_SESSION_KEY == "OTHER"
NotFound == 0 - 1

VARIABLES
    items_dict,        \* items_dict[i]: Cart._items_dict of instance i
    constructed,       \* the Cart instances that exist
    session,           \* the session mapping: key -> stored value
    session_modified,  \* session.modified
    products_db,       \* keys the product queryset resolves
    options_db,        \* keys the option queryset resolves
    last,              \* the last call: operation, instance, quantity, outcome
    pure_adds,         \* the instances, constructed empty, that got add calls of quantity >= 1 only
    lookups            \* the queryset lookups the latest __init__ made, in order

vars == <<items_dict, constructed, session, session_modified, products_db, options_db, last,
          pure_adds, lookups>>

\* ----------------------------------------------------- python primitives
Ok(v) == [ok |-> TRUE, val |-> v]
Raise(e) == [ok |-> FALSE, exc |-> e]

\* The attributes a dict object has; its keys are not among them.
DictAttributes == {"keys", "values", "items", "get"}

\* obj.name on a dict
GetAttr(d, name) ==
    IF name \in DictAttributes THEN Ok(name) ELSE Raise("AttributeError")

\* obj[key] on a dict
GetItem(d, key) ==
    IF key \in DOMAIN d THEN Ok(d[key]) ELSE Raise("KeyError")

\* The names bound at module level in cart.py
ModuleGlobals == {"Decimal", "settings", "module_loading", "carton_settings", "CartItem", "Cart"}

\* Evaluation of a bare name inside a method; locals maps the method's local
\* names to their values
LookupName(name, locals) ==
    IF name \in DOMAIN locals THEN Ok(locals[name])
    ELSE IF name \in ModuleGlobals THEN Ok(name)
    ELSE Raise("NameError")

RECURSIVE Insert(_, _)
Insert(x, s) ==
    IF s = <<>> THEN <<x>>
    ELSE IF x <= Head(s) THEN <<x>> \o s
    ELSE <<Head(s)>> \o Insert(x, Tail(s))

RECURSIVE Sorted(_)
\* sorted(list) on a list of keys
Sorted(s) == IF s = <<>> THEN <<>> ELSE Insert(Head(s), Sorted(Tail(s)))

RECURSIVE SumSeq(_)
\* sum(list)
SumSeq(s) == IF s = <<>> THEN 0 ELSE Head(s) + SumSeq(Tail(s))

\* ---------------------------------------------------------------- entities
ProductPrice(p) == 10 * p
OptionPrice(o) == 2 * o

\* queryset.get(pk=pk)
Get(db, pk) == IF pk \in db THEN Ok(pk) ELSE Raise("DoesNotExist")

\* ---------------------------------------------------------------- CartItem
CartItem(product, options, quantity) ==
    [product |-> product, options |-> options, quantity |-> quantity]

to_dict(item) ==
    [product_pk |-> item.product,
     option_pks |-> [k \in 1..Len(item.options) |-> item.options[k]],
     quantity |-> item.quantity]

subtotal(item) ==
    (ProductPrice(item.product)
       + SumSeq([k \in 1..Len(item.options) |-> OptionPrice(item.options[k])]))
    * item.quantity

\* -------------------------------------------------------------------- Cart
cart_serializable(items) == [k \in 1..Len(items) |-> to_dict(items[k])]

count(items) == SumSeq([k \in 1..Len(items) |-> items[k].quantity])

unique_count(items) == Len(items)

is_empty(items) == unique_count(items) = 0

total(items) == SumSeq([k \in 1..Len(items) |-> subtotal(items[k])])

RECURSIVE IndexFrom(_, _, _, _)
\* The loop of __index__ from position i (1-based here, 0-based in the result)
IndexFrom(cart_items, product, options, i) ==
    IF i > Len(cart_items) THEN Ok(NotFound)
    ELSE LET pk == GetAttr(cart_items[i], "product_pk") IN
         IF ~pk.ok THEN pk
         ELSE IF pk.val = product
              THEN LET opks == GetAttr(cart_items[i], "option_pks") IN
                   IF ~opks.ok THEN opks
                   ELSE IF Sorted(opks.val) = Sorted(options)
                        THEN Ok(i - 1)
                        ELSE IndexFrom(cart_items, product, options, i + 1)
              ELSE IndexFrom(cart_items, product, options, i + 1)

RECURSIVE IndexFromUnsorted(_, _, _, _)
IndexFromUnsorted(cart_items, product, options, i) ==
    IF i > Len(cart_items) THEN Ok(NotFound)
    ELSE IF cart_items[i].product_pk = product /\ cart_items[i].option_pks = options
         THEN Ok(i - 1)
         ELSE IndexFromUnsorted(cart_items, product, options, i + 1)

\* __index__ reading the records by subscript and comparing the option lists
\* in the order given
Index_OrderSensitive(items, product, options) ==
    IndexFromUnsorted(cart_serializable(items), product, options, 1)

\* Cart.__index__(product, options)
Index(items, product, options) ==
    IndexFrom(cart_serializable(items), product, options, 1)

\* del list[idx] (idx 0-based)
DelAt(items, idx) ==
    [k \in 1..(Len(items) - 1) |-> IF k <= idx THEN items[k] ELSE items[k + 1]]

\* list[idx].quantity = q (idx 0-based)
WithQuantity(items, idx, q) ==
    [k \in 1..Len(items) |->
        IF k = idx + 1 THEN CartItem(items[k].product, items[k].options, q) ELSE items[k]]

\* the session replaced by a mapping that holds the one key
SessionSet_Replace(s, key, value) == (key :> value)

\* session[key] = value
SessionSet(s, key, value) ==
    [k \in (DOMAIN s) \cup {key} |-> IF k = key THEN value ELSE s[k]]

\* one call of queryset.get(pk=pk) on the product or the option queryset
Lookup(model, pk) == [model |-> model, pk |-> pk]

RECURSIVE ResolveOptions(_, _, _, _, _)
\* The inner loop of __init__ over item.option_pks, from position k; done are
\* the lookups made so far
ResolveOptions(option_pks, k, options, options_cache, done) ==
    IF k > Len(option_pks)
    THEN [ok |-> TRUE, options |-> options, options_cache |-> options_cache, lookups |-> done]
    ELSE IF option_pks[k] \in options_cache
         THEN ResolveOptions(option_pks, k + 1, Append(options, option_pks[k]),
                             options_cache, done)
         ELSE LET option == Get(options_db, option_pks[k])
                  made == Append(done, Lookup("option", option_pks[k])) IN
              IF ~option.ok
              THEN [ok |-> FALSE, options |-> options, options_cache |-> options_cache,
                    lookups |-> made]
              ELSE ResolveOptions(option_pks, k + 1, Append(options, option.val),
                                  options_cache \cup {option_pks[k]}, made)

\* The body of the try block of __init__ for one stored record; st holds the
\* items built so far, the two caches and the lookups made.  An exception
\* leaves the items alone.
RebuildRecord(item, st) ==
    LET product_pk == GetAttr(item, "product_pk") IN
    IF ~product_pk.ok THEN st
    ELSE
    LET cached == product_pk.val \in st.products_cache
        product == IF cached THEN Ok(product_pk.val) ELSE Get(products_db, product_pk.val)
        made == IF cached THEN st.lookups
                ELSE Append(st.lookups, Lookup("product", product_pk.val)) IN
    IF ~product.ok THEN [st EXCEPT !.lookups = made]
    ELSE
    LET pc == st.products_cache \cup {product_pk.val}
        option_pks == GetAttr(item, "option_pks") IN
    IF ~option_pks.ok THEN [st EXCEPT !.products_cache = pc, !.lookups = made]
    ELSE
    LET r == ResolveOptions(option_pks.val, 1, <<>>, st.options_cache, made) IN
    IF ~r.ok
    THEN [st EXCEPT !.products_cache = pc, !.options_cache = r.options_cache,
                    !.lookups = r.lookups]
    ELSE
    LET quantity == GetItem(item, "quantity") IN
    IF ~quantity.ok
    THEN [st EXCEPT !.products_cache = pc, !.options_cache = r.options_cache,
                    !.lookups = r.lookups]
    ELSE [items |-> Append(st.items, CartItem(product.val, r.options, quantity.val)),
          products_cache |-> pc,
          options_cache |-> r.options_cache,
          lookups |-> r.lookups]

RECURSIVE RebuildFrom(_, _, _)
\* The loop of __init__ over cart_representation, from position k
RebuildFrom(cart_representation, k, st) ==
    IF k > Len(cart_representation) THEN st
    ELSE RebuildFrom(cart_representation, k + 1, RebuildRecord(cart_representation[k], st))

\* __init__: the items built, and the caches and lookups of this construction
RebuildState(s, session_key) ==
    LET fresh == [items |-> <<>>, products_cache |-> {}, options_cache |-> {},
                  lookups |-> <<>>] IN
    IF session_key \in DOMAIN s THEN RebuildFrom(s[session_key], 1, fresh) ELSE fresh

\* The items a new Cart holds after __init__
Rebuild(s, session_key) == RebuildState(s, session_key).items

\* ----------------------------------------------------------------- history
\* the set of option keys of a list of options
KeySet(options) == {options[k] : k \in 1..Len(options)}

\* the identity of a cart line: product key and unordered option keys
Identity(item) == <<item.product, KeySet(item.options)>>

\* how the items hold the line a call names: "same" with the option list
\* as passed, "reordered" with the same option keys in another order, "no"
Held(items, product, options) ==
    IF \E k \in 1..Len(items) : items[k].product = product /\ items[k].options = options
    THEN "same"
    ELSE IF \E k \in 1..Len(items) : Identity(items[k]) = <<product, KeySet(options)>>
         THEN "reordered"
         ELSE "no"

\* The record of a call: found tells whether __index__ returned a position,
\* held how the items held the named line before the call, again whether the
\* call before it was the same method on the same instance.
Called(op, i, quantity, outcome, found, held) ==
    [op |-> op, inst |-> i, quantity |-> quantity, outcome |-> outcome,
     found |-> found, held |-> held, again |-> (last.op = op /\ last.inst = i)]

\* ------------------------------------------------------------------- Init
\* A visitor's session before any cart was stored in it
Init ==
    /\ items_dict = [i \in Inst |-> <<>>]
    /\ constructed = {}
    /\ session = (OTHER_SESSION_KEY :> <<>>)
    /\ session_modified = FALSE
    /\ products_db = Products
    /\ options_db = Options
    /\ last = [op |-> "none", inst |-> 0, quantity |-> 0, outcome |-> "ok",
               found |-> FALSE, held |-> "no", again |-> FALSE]
    /\ pure_adds = {}
    /\ lookups = <<>>

\* ---------------------------------------------------------------- actions
\* __init__ that stores the rebuilt items back into the session
Construct_Persist(i) ==
    /\ items_dict' = [items_dict EXCEPT ![i] = Rebuild(session, CART_SESSION_KEY)]
    /\ constructed' = constructed \cup {i}
    /\ last' = Called("construct", i, 0, "ok", FALSE, "no")
    /\ pure_adds' = IF items_dict'[i] = <<>> THEN pure_adds \cup {i} ELSE pure_adds \ {i}
    /\ lookups' = RebuildState(session, CART_SESSION_KEY).lookups
    /\ session' = SessionSet(session, CART_SESSION_KEY, cart_serializable(items_dict'[i]))
    /\ session_modified' = TRUE
    /\ UNCHANGED <<products_db, options_db>>

\* Cart(session): __init__ with session_key=None
Construct(i) ==
    /\ items_dict' = [items_dict EXCEPT ![i] = Rebuild(session, CART_SESSION_KEY)]
    /\ constructed' = constructed \cup {i}
    /\ last' = Called("construct", i, 0, "ok", FALSE, "no")
    /\ pure_adds' = IF items_dict'[i] = <<>> THEN pure_adds \cup {i} ELSE pure_adds \ {i}
    /\ lookups' = RebuildState(session, CART_SESSION_KEY).lookups
    /\ UNCHANGED <<session, session_modified, products_db, options_db>>

\* update_session() that does not overwrite a cart another writer stored
update_session_FirstWins(items) ==
    /\ session' = IF CART_SESSION_KEY \in DOMAIN session
                  THEN session
                  ELSE SessionSet(session, CART_SESSION_KEY, cart_serializable(items))
    /\ session_modified' = TRUE

\* update_session() that stores the value and leaves the modified flag alone
update_session_NoFlag(items) ==
    /\ session' = SessionSet(session, CART_SESSION_KEY, cart_serializable(items))
    /\ UNCHANGED session_modified

\* update_session() with the items the cart holds
update_session(items) ==
    /\ session' = SessionSet(session, CART_SESSION_KEY, cart_serializable(items))
    /\ session_modified' = TRUE

\* A finished call on instance i with the quantity argument quantity (0 for
\* the methods that take none): r.items are the items it leaves, r.outcome
\* is "ok" or the class of the exception that left the method, r.found tells
\* whether __index__ returned a position, r.persist whether update_session()
\* was reached.
Finish(op, i, quantity, held, r) ==
    /\ items_dict' = [items_dict EXCEPT ![i] = r.items]
    /\ last' = Called(op, i, quantity, r.outcome, r.found, held)
    /\ IF r.persist
       THEN update_session(r.items)
       ELSE UNCHANGED <<session, session_modified>>
    /\ UNCHANGED <<constructed, products_db, options_db, lookups>>

Result(outcome, items, found, persist) ==
    [outcome |-> outcome, items |-> items, found |-> found, persist |-> persist]

\* Cart.add that rejects negative quantities only
AddResult_AllowZero(items, product, options, quantity) ==
    IF quantity < 0 THEN Result("ValueError", items, FALSE, FALSE)
    ELSE LET item_index == Index(items, product, options) IN
         IF ~item_index.ok THEN Result(item_index.exc, items, FALSE, FALSE)
         ELSE IF item_index.val # NotFound
              THEN Result("ok",
                          WithQuantity(items, item_index.val,
                                       items[item_index.val + 1].quantity + quantity),
                          TRUE, TRUE)
              ELSE Result("ok", Append(items, CartItem(product, options, quantity)), FALSE, TRUE)

\* Cart.add without the quantity check
AddResult_NoCheck(items, product, options, quantity) ==
    LET item_index == Index(items, product, options) IN
    IF ~item_index.ok THEN Result(item_index.exc, items, FALSE, FALSE)
    ELSE IF item_index.val # NotFound
         THEN Result("ok",
                     WithQuantity(items, item_index.val,
                                  items[item_index.val + 1].quantity + quantity),
                     TRUE, TRUE)
         ELSE Result("ok", Append(items, CartItem(product, options, quantity)), FALSE, TRUE)

\* Cart.add
AddResult(items, product, options, quantity) ==
    IF quantity < 1 THEN Result("ValueError", items, FALSE, FALSE)
    ELSE LET item_index == Index(items, product, options) IN
         IF ~item_index.ok THEN Result(item_index.exc, items, FALSE, FALSE)
         ELSE IF item_index.val # NotFound
              THEN Result("ok",
                          WithQuantity(items, item_index.val,
                                       items[item_index.val + 1].quantity + quantity),
                          TRUE, TRUE)
              ELSE Result("ok", Append(items, CartItem(product, options, quantity)), FALSE, TRUE)

\* Cart.remove: the method has the parameters self and product only
RemoveResult(self, items, product) ==
    LET options == LookupName("options", [self |-> self, product |-> product]) IN
    IF ~options.ok THEN Result(options.exc, items, FALSE, FALSE)
    ELSE LET item_index == Index(items, product, options.val) IN
         IF ~item_index.ok THEN Result(item_index.exc, items, FALSE, FALSE)
         ELSE IF item_index.val # NotFound
              THEN Result("ok", DelAt(items, item_index.val), TRUE, TRUE)
              ELSE Result("ok", items, FALSE, FALSE)

\* Cart.remove_single: the method has the parameters self and product only
RemoveSingleResult(self, items, product) ==
    LET options == LookupName("options", [self |-> self, product |-> product]) IN
    IF ~options.ok THEN Result(options.exc, items, FALSE, FALSE)
    ELSE LET item_index == Index(items, product, options.val) IN
         IF ~item_index.ok THEN Result(item_index.exc, items, FALSE, FALSE)
         ELSE IF item_index.val # NotFound
              THEN IF items[item_index.val + 1].quantity <= 1
                   THEN Result("ok", DelAt(items, item_index.val), TRUE, TRUE)
                   ELSE Result("ok",
                               WithQuantity(items, item_index.val,
                                            items[item_index.val + 1].quantity - 1),
                               TRUE, TRUE)
              ELSE Result("ok", items, FALSE, FALSE)

\* Cart.clear that empties the list and does not persist
ClearResult_NoPersist(items) == Result("ok", <<>>, FALSE, FALSE)

\* Cart.clear
ClearResult(items) == Result("ok", <<>>, FALSE, TRUE)

\* Cart.set_quantity without the quantity check
SetQuantityResult_NoCheck(items, product, quantity, options) ==
    LET item_index == Index(items, product, options) IN
    IF ~item_index.ok THEN Result(item_index.exc, items, FALSE, FALSE)
    ELSE IF item_index.val # NotFound
         THEN IF quantity < 1
              THEN Result("ok", DelAt(items, item_index.val), TRUE, TRUE)
              ELSE Result("ok", WithQuantity(items, item_index.val, quantity), TRUE, TRUE)
         ELSE Result("ok", items, FALSE, FALSE)

\* Cart.set_quantity
SetQuantityResult(items, product, quantity, options) ==
    IF quantity < 0 THEN Result("ValueError", items, FALSE, FALSE)
    ELSE LET item_index == Index(items, product, options) IN
         IF ~item_index.ok THEN Result(item_index.exc, items, FALSE, FALSE)
         ELSE IF item_index.val # NotFound
              THEN IF quantity < 1
                   THEN Result("ok", DelAt(items, item_index.val), TRUE, TRUE)
                   ELSE Result("ok", WithQuantity(items, item_index.val, quantity), TRUE, TRUE)
              ELSE Result("ok", items, FALSE, FALSE)

Add(i, product, options, quantity) ==
    /\ i \in constructed
    /\ Finish("add", i, quantity, Held(items_dict[i], product, options),
              AddResult(items_dict[i], product, options, quantity))
    /\ pure_adds' = IF quantity >= 1 THEN pure_adds ELSE pure_adds \ {i}

Remove(i, product) ==
    /\ i \in constructed
    /\ Finish("remove", i, 0,
              IF \E k \in 1..Len(items_dict[i]) : items_dict[i][k].product = product
              THEN "same" ELSE "no",
              RemoveResult(i, items_dict[i], product))
    /\ pure_adds' = pure_adds \ {i}

RemoveSingle(i, product) ==
    /\ i \in constructed
    /\ Finish("remove_single", i, 0,
              IF \E k \in 1..Len(items_dict[i]) : items_dict[i][k].product = product
              THEN "same" ELSE "no",
              RemoveSingleResult(i, items_dict[i], product))
    /\ pure_adds' = pure_adds \ {i}

Clear(i) ==
    /\ i \in constructed
    /\ Finish("clear", i, 0, "no", ClearResult(items_dict[i]))
    /\ pure_adds' = pure_adds \ {i}

SetQuantity(i, product, quantity, options) ==
    /\ i \in constructed
    /\ Finish("set_quantity", i, quantity, Held(items_dict[i], product, options),
              SetQuantityResult(items_dict[i], product, quantity, options))
    /\ pure_adds' = pure_adds \ {i}

\* ------------------------------------------------------------ environment
Deleted == (NumProducts - Cardinality(products_db)) + (NumOptions - Cardinality(options_db))

\* A product row is deleted from the store
DeleteProduct(p) ==
    /\ p \in products_db
    /\ Deleted < MaxDeleted
    /\ products_db' = products_db \ {p}
    /\ last' = Called("delete", 0, 0, "ok", FALSE, "no")
    /\ UNCHANGED <<items_dict, constructed, session, session_modified, options_db, pure_adds, lookups>>

\* An option row is deleted from the store
DeleteOption(o) ==
    /\ o \in options_db
    /\ Deleted < MaxDeleted
    /\ options_db' = options_db \ {o}
    /\ last' = Called("delete", 0, 0, "ok", FALSE, "no")
    /\ UNCHANGED <<items_dict, constructed, session, session_modified, products_db, pure_adds, lookups>>

\* The entity lists a caller can pass: rows it has just read from the store
LiveOptionLists == {o \in OptionLists : \A k \in 1..Len(o) : o[k] \in options_db}

\* ------------------------------------------------------------------- Next
Next ==
    \/ \E i \in MainInst : Construct(i)
    \/ \E i \in MainInst, p \in products_db, o \in LiveOptionLists, q \in Quantities :
         Add(i, p, o, q)
    \/ \E i \in MainInst, p \in products_db : Remove(i, p)
    \/ \E i \in MainInst, p \in products_db : RemoveSingle(i, p)
    \/ \E i \in MainInst : Clear(i)
    \/ \E i \in MainInst, p \in products_db, o \in LiveOptionLists, q \in Quantities :
         SetQuantity(i, p, q, o)
    \/ \E p \in Products : DeleteProduct(p)
    \/ \E o \in Options : DeleteOption(o)

Spec == Init /\ [][Next]_vars

\* the option lists the two requests use: products without options
PlainOptionLists == {o \in LiveOptionLists : Len(o) = 0}

\* Two requests of one visitor, each with its own Cart on the same session,
\* their calls interleaved in any order
NextTwo ==
    \/ \E i \in Inst : Construct(i)
    \/ \E i \in Inst, p \in products_db, o \in PlainOptionLists, q \in Quantities :
         Add(i, p, o, q)
    \/ \E i \in Inst, p \in products_db : Remove(i, p)
    \/ \E i \in Inst, p \in products_db : RemoveSingle(i, p)
    \/ \E i \in Inst : Clear(i)
    \/ \E i \in Inst, p \in products_db, o \in PlainOptionLists, q \in Quantities :
         SetQuantity(i, p, q, o)

SpecTwo == Init /\ [][NextTwo]_vars

\* ---------------------------------------------------------------- claims
\* the items hold a line for product with these options
HasEntry(items, product, options) ==
    \E k \in 1..Len(items) : Identity(items[k]) = <<product, KeySet(options)>>

Persisting == {"remove", "remove_single", "set_quantity"}

\* C1: after a mutating call that completes (add, clear, or remove /
\* remove_single / set_quantity whose lookup found an entry) the session
\* value under the cart's key is the serialized item list of that cart and
\* the session is flagged modified.
C1_SessionMirrorsItems ==
    (/\ last.outcome = "ok"
     /\ \/ last.op \in {"add", "clear"}
        \/ last.op \in Persisting /\ last.found)
    => /\ CART_SESSION_KEY \in DOMAIN session
       /\ session[CART_SESSION_KEY] = cart_serializable(items_dict[last.inst])
       /\ session_modified

C1_Witness ==
    /\ last.op = "add"
    /\ last.outcome = "ok"
    /\ items_dict[last.inst] # <<>>
    /\ CART_SESSION_KEY \in DOMAIN session
    /\ session[CART_SESSION_KEY] = cart_serializable(items_dict[last.inst])
    /\ session_modified

\* C2: every item a cart holds has quantity >= 1.
C2_QuantityAtLeastOne ==
    \A i \in constructed : \A k \in 1..Len(items_dict[i]) : items_dict[i][k].quantity >= 1

C2_Witness ==
    /\ last.op = "add"
    /\ last.quantity = 0
    /\ last.outcome = "ValueError"
    /\ \E k \in 1..Len(items_dict[last.inst]) : items_dict[last.inst][k].quantity >= 1

\* C3: no two items of a cart have the same identity (product key, set of
\* option keys).
C3_NoDuplicateIdentity ==
    \A i \in constructed :
        \A j, k \in 1..Len(items_dict[i]) :
            j # k => Identity(items_dict[i][j]) # Identity(items_dict[i][k])

\* add(p, [y, x]) was called on a cart holding p with [x, y], and one line
\* is held
C3_Witness ==
    /\ last.op = "add"
    /\ last.quantity >= 1
    /\ last.held = "reordered"
    /\ Len(items_dict[last.inst]) = 1

\* the quantity the items hold for an identity (0 when they hold no line)
EntryQuantity(items, id) ==
    SumSeq([k \in 1..Len(items) |-> IF Identity(items[k]) = id THEN items[k].quantity ELSE 0])

\* C4: in a sequence of add calls with quantity >= 1 on an initially empty
\* cart every call completes and adds its quantity to count and to the line
\* of its identity, and unique_count grows by one exactly when the identity
\* is new; so count is the sum of the added quantities, each line holds the
\* sum added for its identity and unique_count is the number of identities.
C4_AddSequenceTotals ==
    [][\A i \in pure_adds, p \in Products, o \in OptionLists, q \in 1..MaxQty :
          Add(i, p, o, q)
          => /\ last'.outcome = "ok"
             /\ count(items_dict'[i]) = count(items_dict[i]) + q
             /\ EntryQuantity(items_dict'[i], <<p, KeySet(o)>>)
                  = EntryQuantity(items_dict[i], <<p, KeySet(o)>>) + q
             /\ unique_count(items_dict'[i])
                  = unique_count(items_dict[i])
                    + (IF HasEntry(items_dict[i], p, o) THEN 0 ELSE 1)]_vars

\* the records of both lists agree entry by entry: product key, option-key
\* set and quantity
SameItems(a, b) ==
    /\ Len(a) = Len(b)
    /\ \A k \in 1..Len(a) :
         /\ Identity(a[k]) = Identity(b[k])
         /\ a[k].quantity = b[k].quantity

\* the product and every option of the stored record resolve
Resolves(rec) ==
    /\ rec.product_pk \in products_db
    /\ \A k \in 1..Len(rec.option_pks) : rec.option_pks[k] \in options_db

\* C5: a cart constructed from a session that holds the persisted items of
\* a cart, all of whose products and options resolve, has the same items as
\* that cart, entry by entry.
C5_RoundTrip ==
    [][\A i \in constructed :
          (/\ last'.op = "construct"
           /\ last'.inst = i
           /\ items_dict[i] # <<>>
           /\ CART_SESSION_KEY \in DOMAIN session
           /\ session[CART_SESSION_KEY] = cart_serializable(items_dict[i])
           /\ session_modified
           /\ \A k \in 1..Len(items_dict[i]) : Resolves(to_dict(items_dict[i][k])))
          => SameItems(items_dict'[i], items_dict[i])]_vars

\* C6: add with quantity < 1 and set_quantity with quantity < 0 end in a
\* ValueError and leave the items, the session value and the modified flag
\* as they were.
C6_InvalidQuantityRejected ==
    [][(\/ last'.op = "add" /\ last'.quantity < 1
        \/ last'.op = "set_quantity" /\ last'.quantity < 0)
       => /\ last'.outcome = "ValueError"
          /\ UNCHANGED <<items_dict, session, session_modified>>]_vars

C6_Witness ==
    /\ last.op = "set_quantity"
    /\ last.quantity < 0
    /\ last.outcome = "ValueError"
    /\ items_dict[last.inst] # <<>>
    /\ session_modified

RECURSIVE ResolvingRecords(_)
\* the stored records that resolve, in stored order, as cart items
ResolvingRecords(stored) ==
    IF stored = <<>> THEN <<>>
    ELSE (IF Resolves(Head(stored))
          THEN <<CartItem(Head(stored).product_pk, Head(stored).option_pks,
                          Head(stored).quantity)>>
          ELSE <<>>) \o ResolvingRecords(Tail(stored))

\* C7: a cart constructed from a stored sequence holds exactly the records
\* whose product and options all resolve, in stored order.
C7_BestEffortRebuild ==
    (last.op = "construct" /\ CART_SESSION_KEY \in DOMAIN session)
    => items_dict[last.inst] = ResolvingRecords(session[CART_SESSION_KEY])

\* the items without the line of this identity
WithoutEntry(items, product, options) ==
    SelectSeq(items, LAMBDA it : Identity(it) # <<product, KeySet(options)>>)

\* C8: on a cart that holds product p with options o, set_quantity(p, 0, o)
\* and remove(p) both leave the cart without that line, the other lines as
\* they were, the session holding the serialized result and flagged modified.
C8_SetZeroIsRemove ==
    [][\A i \in constructed, p \in Products, o \in OptionLists :
          (/\ HasEntry(items_dict[i], p, o)
           /\ \/ SetQuantity(i, p, 0, o)
              \/ Remove(i, p))
          => /\ items_dict'[i] = WithoutEntry(items_dict[i], p, o)
             /\ CART_SESSION_KEY \in DOMAIN session'
             /\ session'[CART_SESSION_KEY] = cart_serializable(items_dict'[i])
             /\ session_modified']_vars

\* C9: remove_single on a line of quantity q leaves it with quantity q - 1
\* when q > 1 and removes the line when q = 1.
C9_RemoveSingleDecrements ==
    [][\A i \in constructed, p \in Products :
          \A k \in 1..Len(items_dict[i]) :
              (items_dict[i][k].product = p /\ RemoveSingle(i, p))
              => IF items_dict[i][k].quantity > 1
                 THEN /\ Len(items_dict'[i]) = Len(items_dict[i])
                      /\ items_dict'[i][k].quantity = items_dict[i][k].quantity - 1
                 ELSE ~HasEntry(items_dict'[i], p, items_dict[i][k].options)]_vars

\* C10: after clear(), also after a second one, the cart is empty, count and
\* total are 0 and the session holds the empty sequence and is flagged
\* modified.
C10_ClearIdempotent ==
    last.op = "clear"
    => /\ items_dict[last.inst] = <<>>
       /\ is_empty(items_dict[last.inst])
       /\ count(items_dict[last.inst]) = 0
       /\ total(items_dict[last.inst]) = 0
       /\ CART_SESSION_KEY \in DOMAIN session
       /\ session[CART_SESSION_KEY] = <<>>
       /\ session_modified

C10_Witness ==
    /\ last.op = "clear"
    /\ last.again
    /\ is_empty(items_dict[last.inst])
    /\ session[CART_SESSION_KEY] = <<>>

\* C11: remove, remove_single and set_quantity (quantity >= 0) called for a
\* line the cart does not hold return normally and leave the items, the
\* session value and the modified flag as they were.
C11_NotFoundIsNoOp ==
    [][(/\ last'.op \in Persisting
        /\ last'.held = "no"
        /\ last'.op = "set_quantity" => last'.quantity >= 0)
       => /\ last'.outcome = "ok"
          /\ UNCHANGED <<items_dict, session, session_modified>>]_vars

\* the 0-based positions of the lines with the identity of (product, options)
Positions(items, product, options) ==
    {k - 1 : k \in {j \in 1..Len(items) : Identity(items[j]) = <<product, KeySet(options)>>}}

\* C12: __index__(product, options) returns the position of the line with
\* that product key and that set of option keys, returns -1 exactly when no
\* line matches, and does not raise.
C12_IndexFindsIdentity ==
    \A i \in constructed, p \in Products, o \in OptionLists :
        LET r == Index(items_dict[i], p, o) IN
        /\ r.ok
        /\ IF HasEntry(items_dict[i], p, o)
           THEN r.val \in Positions(items_dict[i], p, o)
           ELSE r.val = NotFound

\* C13: no step changes the value stored under a session key other than the
\* cart's key, or removes such a key.
C13_OtherKeysUntouched ==
    [][\A k \in (DOMAIN session) \ {CART_SESSION_KEY} :
          /\ k \in DOMAIN session'
          /\ session'[k] = session[k]]_vars

C13_Witness ==
    /\ last.op = "add"
    /\ last.outcome = "ok"
    /\ session_modified
    /\ CART_SESSION_KEY \in DOMAIN session
    /\ session[CART_SESSION_KEY] # <<>>
    /\ OTHER_SESSION_KEY \in DOMAIN session
    /\ session[OTHER_SESSION_KEY] = <<>>

\* the price of one unit of a product with options
UnitPrice(product, options) ==
    ProductPrice(product) + SumSeq([k \in 1..Len(options) |-> OptionPrice(options[k])])

RECURSIVE ExpectedTotal(_)
\* the sum over the lines of unit price times quantity
ExpectedTotal(items) ==
    IF items = <<>> THEN 0
    ELSE UnitPrice(Head(items).product, Head(items).options) * Head(items).quantity
         + ExpectedTotal(Tail(items))

\* C14: total is the sum over the lines of (product price + option prices)
\* times quantity, and in a sequence of add calls on an initially empty cart
\* each add(p, o, q) raises total by q units of p with o (add(A, [], 2) then
\* add(A, [], 3) gives 5 units of A).
C14_TotalIsSumOfLines ==
    [][\A i \in constructed :
          /\ total(items_dict'[i]) = ExpectedTotal(items_dict'[i])
          /\ i \in pure_adds =>
               \A p \in Products, o \in OptionLists, q \in 1..MaxQty :
                   Add(i, p, o, q)
                   => total(items_dict'[i]) = total(items_dict[i]) + UnitPrice(p, o) * q]_vars

\* the items with the quantity of the line of this identity changed by f
WithEntryQuantity(items, product, options, f(_)) ==
    [k \in 1..Len(items) |->
        IF Identity(items[k]) = <<product, KeySet(options)>>
        THEN [items[k] EXCEPT !.quantity = f(@)]
        ELSE items[k]]

\* C16: add(p, o, q) with q >= 1 raises the quantity of the line with that
\* identity by q in place, or appends a new line of quantity q when there is
\* none; every other line stays as it was.
C16_AddChangesOneEntry ==
    [][\A i \in constructed, p \in Products, o \in OptionLists, q \in 1..MaxQty :
          Add(i, p, o, q)
          => items_dict'[i] =
               IF HasEntry(items_dict[i], p, o)
               THEN WithEntryQuantity(items_dict[i], p, o, LAMBDA x : x + q)
               ELSE Append(items_dict[i], CartItem(p, o, q))]_vars

\* C17: on a cart holding the line of (p, o), remove(p) deletes that line and
\* set_quantity(p, q, o) with q >= 1 sets its quantity to q in place; every
\* other line stays as it was.
C17_RemoveAndSetTouchOneEntry ==
    [][\A i \in constructed, p \in Products, o \in OptionLists :
          HasEntry(items_dict[i], p, o)
          => /\ Remove(i, p) => items_dict'[i] = WithoutEntry(items_dict[i], p, o)
             /\ \A q \in 1..MaxQty :
                  SetQuantity(i, p, q, o)
                  => items_dict'[i]
                       = WithEntryQuantity(items_dict[i], p, o, LAMBDA x : q)]_vars

\* C18: __init__ leaves the session value and the modified flag as they
\* were; the stored value changes only in a mutating call, and then to the
\* serialized items of the calling cart (without the records the rebuild
\* skipped).
C18_ConstructDoesNotWrite ==
    [][/\ last'.op = "construct" => UNCHANGED <<session, session_modified>>
       /\ session' # session
          => /\ last'.op \in {"add", "clear"} \cup Persisting
             /\ session'[CART_SESSION_KEY] = cart_serializable(items_dict'[last'.inst])]_vars

\* a cart was constructed from a stored record that the rebuild skipped, and
\* the session still holds the record
C18_Witness ==
    /\ last.op = "construct"
    /\ CART_SESSION_KEY \in DOMAIN session
    /\ Len(session[CART_SESSION_KEY]) > Len(items_dict[last.inst])
    /\ session_modified

\* C19: is_empty, unique_count == 0 and count == 0 agree, and count is at
\* least unique_count.
C19_AggregatesAgree ==
    \A i \in constructed :
        /\ is_empty(items_dict[i]) <=> unique_count(items_dict[i]) = 0
        /\ unique_count(items_dict[i]) = 0 <=> count(items_dict[i]) = 0
        /\ count(items_dict[i]) >= unique_count(items_dict[i])

C19_Witness ==
    \E i \in constructed :
        /\ ~is_empty(items_dict[i])
        /\ unique_count(items_dict[i]) > 0
        /\ count(items_dict[i]) > unique_count(items_dict[i])

\* C15: with two carts on one session, after each persisting call the
\* session holds the serialized items of the cart that made the call, the
\* session is flagged modified and the other cart's items are as they were,
\* whatever the session held before.
C15_LastWriteWins ==
    [][(/\ last'.outcome = "ok"
        /\ \/ last'.op \in {"add", "clear"}
           \/ last'.op \in Persisting /\ last'.found)
       => /\ CART_SESSION_KEY \in DOMAIN session'
          /\ session'[CART_SESSION_KEY] = cart_serializable(items_dict'[last'.inst])
          /\ session_modified'
          /\ \A j \in Inst \ {last'.inst} : items_dict'[j] = items_dict[j]]_vars

\* a line one cart added and persisted is no longer in the session after
\* the other cart's add
C15_Witness ==
    \E i, j \in constructed :
        /\ i # j
        /\ last.op = "add"
        /\ last.outcome = "ok"
        /\ last.inst = j
        /\ items_dict[i] # <<>>
        /\ session[CART_SESSION_KEY] = cart_serializable(items_dict[j])
        /\ \A k \in 1..Len(session[CART_SESSION_KEY]) :
             session[CART_SESSION_KEY][k] # to_dict(items_dict[i][1])

\* how many times a construction called get() on this model with this key
TimesLookedUp(made, model, pk) ==
    Cardinality({k \in 1..Len(made) : made[k] = Lookup(model, pk)})

\* the product keys of the stored records
StoredProductKeys(cart_representation) ==
    {cart_representation[k].product_pk : k \in 1..Len(cart_representation)}

====
